---- MODULE Spec2Model ----
(***************************************************************************)
(* The AudioRecorder component of frontend/components/audio-recorder.tsx.  *)
(* The file holds the recorder's variants; three are modelled:             *)
(*   "wav"        lines 312-729   ScriptProcessor capture, WAV encoding    *)
(*   "upload"     lines 731-1084  MediaRecorder, per-second timer, upload  *)
(*   "transcribe" lines 1086-1593 MediaRecorder, wall-clock timer,         *)
(*                                transcription, reset                     *)
(* One state is the component after a render together with the browser     *)
(* objects it created (streams, recorders, intervals, object URLs) and the *)
(* tasks still queued for it.  One step is one task of the event loop: a   *)
(* user click with its handler, the continuation of an await, a timer or   *)
(* recorder callback, each with the re-render and effect cleanup it causes.*)
(***************************************************************************)
EXTENDS Integers, Sequences, FiniteSets

\* ---------------------------------------------------------------- bounds
\* startRecording invocations in one run
MaxStarts == 2
\* data events (dataavailable / audioprocess) in one run
MaxChunks == 2
\* largest value of the clock and of the per-second counter
MaxTime == 2
\* transcription requests in one run
MaxFetches == 2
\* uploadAudio invocations in one run
MaxUploads == 1

\* ScriptProcessor buffer size: createScriptProcessor(4096, 1, 1)
FrameLen == 4096
\* bytes of the RIFF/WAVE header written by encodeWAV
WavHeaderLen == 44

Starts == 1..MaxStarts
Uploads == 1..MaxUploads
Variants == {"wav", "upload", "transcribe"}
\* sizes a delivered Blob chunk may have (0: an empty chunk)
ChunkSizes == {0, 10}
Null == "null"

VARIABLES
  \* configuration, fixed in a run
  variant,          \* which variant of the component is mounted
  supported,        \* the types MediaRecorder.isTypeSupported accepts
  \* React state (useState)
  isRecording, isPlaying, recordingTime, audioBlob, audioUrl,
  isTranscribing, transcript, transcriptError, showTranscript,
  isUploading, uploadProgress,
  \* refs (useRef); 0 is null
  mediaRecorderRef, streamRef, chunksRef, timerRef, startTimeRef,
  processorRef, audioDataRef,
  \* the browser: one stream / recorder / interval per startRecording call
  gum,              \* getUserMedia request of call k
  tracksLive,       \* stream k has un-stopped tracks
  rec,              \* recorder (or processor graph) of call k
  timerActive,      \* interval created by call k is not cleared
  delivered,        \* chunks recorder k has delivered so far, in order
  urlCount, revokedUrls, sinkPlaying, now, alertCount,
  fetches,          \* transcription requests in flight
  nFetches,
  progressActive,   \* progress interval of uploadAudio call u is not cleared
  uploads,          \* the onUpload(audioBlob) call of uploadAudio call u
  uploadTimeouts,   \* the 500 ms timeout of uploadAudio call u is pending
  lastDownload,     \* extension of the file name of the last download
  artifactStarts,   \* startRecording invocations made when the artifact was set
  \* observation
  mounted,          \* the component is mounted
  sessionState,     \* the session state of the specification
  lastOp            \* the handler or callback that ran last

reactState == <<isRecording, isPlaying, recordingTime, audioBlob, audioUrl,
                isTranscribing, transcript, transcriptError, showTranscript,
                isUploading, uploadProgress>>
refs == <<mediaRecorderRef, streamRef, chunksRef, timerRef, startTimeRef,
          processorRef, audioDataRef>>
browser == <<gum, tracksLive, rec, timerActive, delivered, urlCount,
             revokedUrls, sinkPlaying, now, alertCount, fetches, nFetches,
             progressActive, uploads, uploadTimeouts, lastDownload>>
\* what uploadAudio and its callbacks change
uploadVars == <<isUploading, uploadProgress, progressActive, uploads,
                uploadTimeouts>>
config == <<variant, supported>>
vars == <<config, reactState, refs, browser, artifactStarts, mounted,
          sessionState, lastOp>>

\* ------------------------------------------------------------- helpers
RECURSIVE SumSizes(_)
SumSizes(s) == IF s = <<>> THEN 0 ELSE Head(s).size + SumSizes(Tail(s))

RECURSIVE SeqSum(_)
SeqSum(s) == IF s = <<>> THEN 0 ELSE Head(s) + SeqSum(Tail(s))

NonEmpty(s) == SelectSeq(s, LAMBDA c : c.size > 0)

nChunks == SeqSum([k \in Starts |-> Len(delivered[k])])
nCalls == Cardinality({k \in Starts : gum[k] # "none"})

\* a state setter of an unmounted component does nothing
SetState(cur, new) == IF mounted THEN new ELSE cur

\* ---------------------------------------------------- getSupportedMimeType
types == << "audio/mp4; codecs=\"mp4a.40.2\"", "audio/webm; codecs=opus",
            "audio/webm", "audio/mp4", "audio/ogg; codecs=opus", "audio/ogg" >>

RECURSIVE firstSupported(_, _)
firstSupported(list, sup) ==
  IF list = <<>> THEN "audio/webm"
  ELSE IF Head(list) \in sup THEN Head(list)
  ELSE firstSupported(Tail(list), sup)

\* a selection that does not probe the runtime
getSupportedMimeTypeNoProbe == "audio/webm"

getSupportedMimeType == firstSupported(types, supported)

\* runtimes: one that supports none of the types, and a WebM/Opus one
RuntimeProfiles ==
  { {}, {"audio/webm; codecs=opus", "audio/webm"} }

\* ------------------------------------------------------------- Blob
NoBlob == <<>>
NewBlob(parts, type) ==
  << [parts |-> parts, type |-> type, size |-> SumSizes(parts)] >>

\* ------------------------------------------------------------- WAV
\* a sample x of a Float32Array is the integer x * SampleDen
SampleDen == 4
\* sample values a frame may hold: -1.5, -1, -0.25, 0, 0.25, 1, 1.5
Samples == {-6, -4, -1, 0, 1, 4, 6}
\* encodeWAV(audioData, 44100)
SampleRate == 44100

\* String.prototype.charCodeAt for the characters of the header
charCode(c) ==
  CASE c = "R" -> 82 [] c = "I" -> 73 [] c = "F" -> 70 [] c = "W" -> 87
    [] c = "A" -> 65 [] c = "V" -> 86 [] c = "E" -> 69 [] c = "f" -> 102
    [] c = "m" -> 109 [] c = "t" -> 116 [] c = " " -> 32 [] c = "d" -> 100
    [] c = "a" -> 97

\* writeString: one byte per character
writeString(string) ==
  [i \in 1..Len(string) |-> charCode(SubSeq(string, i, i))]

\* DataView.setUint32(offset, value, true): four bytes, little-endian (the
\* byte of weight 2^24 taken modulo 256 is the wrap to 32 bits)
setUint32(value) ==
  << value % 256, (value \div 256) % 256, (value \div 65536) % 256,
     (value \div 16777216) % 256 >>

\* DataView.setUint16(offset, value, true)
setUint16(value) ==
  LET v == value % 65536 IN << v % 256, (v \div 256) % 256 >>

\* DataView.setInt16 of a number: truncate toward zero, wrap to 16 bits
toInt16(num, den) ==
  LET t == IF num < 0 THEN -((-num) \div den) ELSE num \div den
  IN ((t + 32768) % 65536) - 32768

\* a quantization that scales both signs by 0x8000
floatTo16BitPCMSymmetric(x) ==
  LET s == IF x > SampleDen THEN SampleDen
           ELSE IF x < -SampleDen THEN -SampleDen ELSE x
  IN toInt16(s * 32768, SampleDen)

\* floatTo16BitPCM, for one sample:
\*   s = Math.max(-1, Math.min(1, x)); setInt16(s < 0 ? s*0x8000 : s*0x7fff)
floatTo16BitPCM(x) ==
  LET s == IF x > SampleDen THEN SampleDen
           ELSE IF x < -SampleDen THEN -SampleDen ELSE x
  IN IF s < 0 THEN toInt16(s * 32768, SampleDen)
     ELSE toInt16(s * 32767, SampleDen)

\* new ArrayBuffer(44 + length * 2)
encodeWAVLength(samples) == WavHeaderLen + samples * 2

\* the 44 bytes of the RIFF/WAVE header
wavHeader(riffSize, dataSize) ==
  writeString("RIFF") \o setUint32(riffSize) \o writeString("WAVE")
  \o writeString("fmt ") \o setUint32(16) \o setUint16(1) \o setUint16(1)
  \o setUint32(SampleRate) \o setUint32(SampleRate * 2) \o setUint16(2)
  \o setUint16(16) \o writeString("data") \o setUint32(dataSize)

\* an encodeWAV that counts samples where it should count bytes
encodeWAVSampleCount(frames) ==
  LET length == SumSizes(frames)
  IN [size |-> encodeWAVLength(length),
      header |-> wavHeader(36 + length, length),
      pcm |-> [i \in 1..Len(frames) |->
                 [len |-> frames[i].size, q |-> floatTo16BitPCM(frames[i].v)]]]

\* encodeWAV of the concatenation of the frames; the PCM data is kept as
\* one run per frame (a frame holds FrameLen samples of one value)
encodeWAV(frames) ==
  LET length == SumSizes(frames)
  IN [size |-> encodeWAVLength(length),
      header |-> wavHeader(36 + length * 2, length * 2),
      pcm |-> [i \in 1..Len(frames) |->
                 [len |-> frames[i].size, q |-> floatTo16BitPCM(frames[i].v)]]]

\* new Blob([wavBuffer], { type: "audio/wav" })
WavBlob(frames) == NewBlob(<<encodeWAV(frames)>>, "audio/wav")

\* ------------------------------------------------------------- Init
InitFor(profiles) ==
  /\ variant \in Variants
  /\ supported \in (IF variant = "wav" THEN {{}} ELSE profiles)
  /\ isRecording = FALSE /\ isPlaying = FALSE /\ recordingTime = 0
  /\ audioBlob = NoBlob /\ audioUrl = 0
  /\ isTranscribing = FALSE /\ transcript = Null /\ transcriptError = Null
  /\ showTranscript = FALSE
  /\ mediaRecorderRef = 0 /\ streamRef = 0 /\ chunksRef = <<>> /\ timerRef = 0
  /\ startTimeRef = 0 /\ processorRef = 0 /\ audioDataRef = <<>>
  /\ gum = [k \in Starts |-> "none"]
  /\ tracksLive = [k \in Starts |-> FALSE]
  /\ rec = [k \in Starts |-> "none"]
  /\ timerActive = [k \in Starts |-> FALSE]
  /\ delivered = [k \in Starts |-> <<>>]
  /\ urlCount = 0 /\ revokedUrls = {} /\ sinkPlaying = FALSE /\ now = 1
  /\ alertCount = 0 /\ fetches = 0 /\ nFetches = 0
  /\ isUploading = FALSE /\ uploadProgress = 0
  /\ progressActive = [u \in Uploads |-> FALSE]
  /\ uploads = [u \in Uploads |-> "none"]
  /\ uploadTimeouts = [u \in Uploads |-> FALSE]
  /\ lastDownload = Null /\ artifactStarts = 0
  /\ mounted = TRUE /\ sessionState = "Idle" /\ lastOp = "mount"

Init == InitFor(RuntimeProfiles)

\* ---------------------------------------------- what the render shows
MediaRecorderVariant == variant \in {"upload", "transcribe"}

\* the start control: the main button of the transcription variant is the
\* start button while !audioUrl and !isRecording; the other variants show
\* "Start Recording" whenever !isRecording
StartVisible ==
  IF variant = "transcribe" THEN audioUrl = 0 /\ ~isRecording ELSE ~isRecording

StopVisible ==
  IF variant = "transcribe" THEN audioUrl = 0 /\ isRecording ELSE isRecording

\* play, download (and transcribe, record again) are rendered with audioUrl
PlaybackVisible == audioUrl # 0

\* ------------------------------- the cleanup of the effect keyed on audioUrl
\* clearInterval(timerRef.current)
clearTimer(ta, tref) == IF tref # 0 THEN [ta EXCEPT ![tref] = FALSE] ELSE ta

\* streamRef.current.getTracks().forEach(track => track.stop())
stopTracks(tl, sref) == IF sref # 0 THEN [tl EXCEPT ![sref] = FALSE] ELSE tl

\* a MediaRecorder whose tracks have all ended stops by itself and queues
\* its dataavailable and stop events (MediaStream Recording, start())
tracksEnded(rc, tl) ==
  IF MediaRecorderVariant
  THEN [k \in Starts |->
          IF rc[k] = "recording" /\ ~tl[k] THEN "stopping" ELSE rc[k]]
  ELSE rc

\* processorRef.current.disconnect(), audioContextRef.current.close()
disconnectProcessor(rc, pref) ==
  IF pref # 0 /\ rc[pref] = "recording"
  THEN [rc EXCEPT ![pref] = "inactive"] ELSE rc

\* URL.revokeObjectURL(audioUrl), audioUrl of the render that set the effect up
revokeUrl(url) == IF url # 0 THEN revokedUrls \cup {url} ELSE revokedUrls

\* ------------------------------------------------------- startRecording
\* up to the await of getUserMedia
startRecording ==
  /\ nCalls < MaxStarts
  /\ gum' = [gum EXCEPT ![nCalls + 1] = "pending"]
  /\ lastOp' = "startRecording"
  /\ UNCHANGED <<config, reactState, refs, tracksLive, rec, timerActive,
                 delivered, urlCount, revokedUrls, sinkPlaying, now,
                 alertCount, fetches, nFetches, mounted, sessionState>>
  /\ UNCHANGED <<uploadVars, lastDownload, artifactStarts>>

ClickStart == mounted /\ StartVisible /\ startRecording

\* a catch block that swallows the failure: no alert
startRecordingRejectedSilently(k) ==
  /\ gum[k] = "pending"
  /\ gum' = [gum EXCEPT ![k] = "denied"]
  /\ lastOp' = "startRecordingRejected"
  /\ UNCHANGED <<config, reactState, refs, tracksLive, rec, timerActive,
                 delivered, urlCount, revokedUrls, sinkPlaying, now,
                 alertCount, fetches, nFetches, mounted, sessionState>>
  /\ UNCHANGED <<uploadVars, lastDownload, artifactStarts>>

\* getUserMedia rejects: the catch block
startRecordingRejected(k) ==
  /\ gum[k] = "pending"
  /\ gum' = [gum EXCEPT ![k] = "denied"]
  /\ alertCount' = alertCount + 1
  /\ lastOp' = "startRecordingRejected"
  /\ UNCHANGED <<config, reactState, refs, tracksLive, rec, timerActive,
                 delivered, urlCount, revokedUrls, sinkPlaying, now,
                 fetches, nFetches, mounted, sessionState>>
  /\ UNCHANGED <<uploadVars, lastDownload, artifactStarts>>

\* a start that does not empty chunksRef
startRecordingResumedKeepsChunks(k) ==
  /\ MediaRecorderVariant
  /\ gum[k] = "pending"
  /\ tracksLive' = [tracksLive EXCEPT ![k] = TRUE]
  /\ streamRef' = k
  /\ lastOp' = "startRecordingResumed"
  /\ IF getSupportedMimeType \notin supported
     THEN /\ gum' = [gum EXCEPT ![k] = "threw"]
          /\ alertCount' = alertCount + 1
          /\ UNCHANGED <<reactState, mediaRecorderRef, chunksRef, timerRef,
                         startTimeRef, rec, timerActive, sessionState>>
     ELSE /\ gum' = [gum EXCEPT ![k] = "granted"]
          /\ mediaRecorderRef' = k
          /\ chunksRef' = chunksRef
          /\ rec' = [rec EXCEPT ![k] = "recording"]
          /\ isRecording' = SetState(isRecording, TRUE)
          /\ recordingTime' = SetState(recordingTime, 0)
          /\ startTimeRef' = IF variant = "transcribe" THEN now ELSE startTimeRef
          /\ timerRef' = k
          /\ timerActive' = [timerActive EXCEPT ![k] = TRUE]
          /\ sessionState' = SetState(sessionState, "Recording")
          /\ alertCount' = alertCount
          /\ UNCHANGED <<isPlaying, audioBlob, audioUrl, isTranscribing,
                         transcript, transcriptError, showTranscript>>
  /\ UNCHANGED <<config, processorRef, audioDataRef, delivered, urlCount,
                 revokedUrls, sinkPlaying, now, fetches, nFetches, mounted>>
  /\ UNCHANGED <<uploadVars, lastDownload, artifactStarts>>

\* getUserMedia resolves (MediaRecorder variants): the rest of the try block.
\* new MediaRecorder(stream, {mimeType}) throws NotSupportedError for a type
\* the runtime does not support, which is the fallback's case.
startRecordingResumed(k) ==
  /\ MediaRecorderVariant
  /\ gum[k] = "pending"
  /\ tracksLive' = [tracksLive EXCEPT ![k] = TRUE]
  /\ streamRef' = k
  /\ lastOp' = "startRecordingResumed"
  /\ IF getSupportedMimeType \notin supported
     THEN /\ gum' = [gum EXCEPT ![k] = "threw"]
          /\ alertCount' = alertCount + 1
          /\ UNCHANGED <<reactState, mediaRecorderRef, chunksRef, timerRef,
                         startTimeRef, rec, timerActive, sessionState>>
     ELSE /\ gum' = [gum EXCEPT ![k] = "granted"]
          /\ mediaRecorderRef' = k
          /\ chunksRef' = <<>>
          /\ rec' = [rec EXCEPT ![k] = "recording"]
          /\ isRecording' = SetState(isRecording, TRUE)
          /\ recordingTime' = SetState(recordingTime, 0)
          /\ startTimeRef' = IF variant = "transcribe" THEN now ELSE startTimeRef
          /\ timerRef' = k
          /\ timerActive' = [timerActive EXCEPT ![k] = TRUE]
          /\ sessionState' = SetState(sessionState, "Recording")
          /\ alertCount' = alertCount
          /\ UNCHANGED <<isPlaying, audioBlob, audioUrl, isTranscribing,
                         transcript, transcriptError, showTranscript>>
  /\ UNCHANGED <<config, processorRef, audioDataRef, delivered, urlCount,
                 revokedUrls, sinkPlaying, now, fetches, nFetches, mounted>>
  /\ UNCHANGED <<uploadVars, lastDownload, artifactStarts>>

\* getUserMedia resolves (WAV variant); contextOk: the AudioContext and its
\* nodes could be created (the constructor throws NotSupportedError otherwise)
startRecordingResumedWav(k, contextOk) ==
  /\ variant = "wav"
  /\ gum[k] = "pending"
  /\ tracksLive' = [tracksLive EXCEPT ![k] = TRUE]
  /\ streamRef' = k
  /\ lastOp' = "startRecordingResumed"
  /\ IF ~contextOk
     THEN /\ gum' = [gum EXCEPT ![k] = "threw"]
          /\ alertCount' = alertCount + 1
          /\ UNCHANGED <<reactState, processorRef, audioDataRef, timerRef,
                         rec, timerActive, sessionState>>
     ELSE /\ gum' = [gum EXCEPT ![k] = "granted"]
          /\ processorRef' = k
          /\ audioDataRef' = <<>>
          /\ rec' = [rec EXCEPT ![k] = "recording"]
          /\ isRecording' = SetState(isRecording, TRUE)
          /\ recordingTime' = SetState(recordingTime, 0)
          /\ timerRef' = k
          /\ timerActive' = [timerActive EXCEPT ![k] = TRUE]
          /\ sessionState' = SetState(sessionState, "Recording")
          /\ alertCount' = alertCount
          /\ UNCHANGED <<isPlaying, audioBlob, audioUrl, isTranscribing,
                         transcript, transcriptError, showTranscript>>
  /\ UNCHANGED <<config, mediaRecorderRef, chunksRef, startTimeRef, delivered,
                 urlCount, revokedUrls, sinkPlaying, now, fetches, nFetches,
                 mounted>>
  /\ UNCHANGED <<uploadVars, lastDownload, artifactStarts>>

\* ------------------------------------------------------- data callbacks
\* a data callback without the size test: it appends empty chunks too
ondataavailableAnySize(k, size) ==
  /\ MediaRecorderVariant
  /\ rec[k] = "recording"
  /\ nChunks < MaxChunks
  /\ LET chunk == [rec |-> k, seq |-> Len(delivered[k]) + 1, size |-> size]
     IN /\ chunksRef' = Append(chunksRef, chunk)
        /\ delivered' = [delivered EXCEPT ![k] = Append(@, chunk)]
  /\ lastOp' = "ondataavailable"
  /\ UNCHANGED <<config, reactState, mediaRecorderRef, streamRef, timerRef,
                 startTimeRef, processorRef, audioDataRef, gum, tracksLive,
                 rec, timerActive, urlCount, revokedUrls, sinkPlaying, now,
                 alertCount, fetches, nFetches, mounted, sessionState>>
  /\ UNCHANGED <<uploadVars, lastDownload, artifactStarts>>

\* mediaRecorder.ondataavailable of recorder k, every 100 ms while recording
ondataavailable(k, size) ==
  /\ MediaRecorderVariant
  /\ rec[k] = "recording"
  /\ nChunks < MaxChunks
  /\ LET chunk == [rec |-> k, seq |-> Len(delivered[k]) + 1, size |-> size]
     IN /\ chunksRef' = IF size > 0 THEN Append(chunksRef, chunk) ELSE chunksRef
        /\ delivered' = [delivered EXCEPT ![k] = Append(@, chunk)]
  /\ lastOp' = "ondataavailable"
  /\ UNCHANGED <<config, reactState, mediaRecorderRef, streamRef, timerRef,
                 startTimeRef, processorRef, audioDataRef, gum, tracksLive,
                 rec, timerActive, urlCount, revokedUrls, sinkPlaying, now,
                 alertCount, fetches, nFetches, mounted, sessionState>>
  /\ UNCHANGED <<uploadVars, lastDownload, artifactStarts>>

\* processor.onaudioprocess of processor k: one frame of 4096 samples of
\* value v
onaudioprocess(k, v) ==
  /\ variant = "wav"
  /\ rec[k] = "recording"
  /\ nChunks < MaxChunks
  /\ LET frame == [rec |-> k, seq |-> Len(delivered[k]) + 1, size |-> FrameLen,
                   v |-> v]
     IN /\ audioDataRef' = Append(audioDataRef, frame)
        /\ delivered' = [delivered EXCEPT ![k] = Append(@, frame)]
  /\ lastOp' = "onaudioprocess"
  /\ UNCHANGED <<config, reactState, mediaRecorderRef, streamRef, chunksRef,
                 timerRef, startTimeRef, processorRef, gum, tracksLive, rec,
                 timerActive, urlCount, revokedUrls, sinkPlaying, now,
                 alertCount, fetches, nFetches, mounted, sessionState>>
  /\ UNCHANGED <<uploadVars, lastDownload, artifactStarts>>

\* ------------------------------------------------------- stopRecording
\* MediaRecorder variants.  stop() on a recorder that is already inactive
\* either does nothing or throws InvalidStateError, by the runtime.
stopRecordingMR(throws) ==
  /\ lastOp' = "stopRecording"
  /\ IF mediaRecorderRef # 0 /\ isRecording
     THEN IF rec[mediaRecorderRef] # "recording" /\ throws
          THEN UNCHANGED <<isRecording, rec, timerActive, sessionState>>
          ELSE /\ rec' = IF rec[mediaRecorderRef] = "recording"
                         THEN [rec EXCEPT ![mediaRecorderRef] = "stopping"]
                         ELSE rec
               /\ isRecording' = FALSE
               /\ timerActive' = clearTimer(timerActive, timerRef)
               /\ sessionState' = "Stopped"
     ELSE UNCHANGED <<isRecording, rec, timerActive, sessionState>>
  /\ UNCHANGED <<config, isPlaying, recordingTime, audioBlob, audioUrl,
                 isTranscribing, transcript, transcriptError, showTranscript,
                 refs, gum, tracksLive, delivered, urlCount, revokedUrls,
                 sinkPlaying, now, alertCount, fetches, nFetches, mounted>>
  /\ UNCHANGED <<uploadVars, lastDownload, artifactStarts>>

\* WAV variant: the artifact is built here, when audioDataRef is not empty;
\* setAudioUrl re-renders and runs the cleanup of the effect keyed on audioUrl
stopRecordingWav ==
  /\ lastOp' = "stopRecording"
  /\ IF isRecording
     THEN LET made == Len(audioDataRef) > 0
              url == urlCount + 1
          IN /\ isRecording' = FALSE
             /\ timerActive' = clearTimer(timerActive, timerRef)
             /\ rec' = disconnectProcessor(rec, processorRef)
             /\ audioBlob' = IF made THEN WavBlob(audioDataRef) ELSE audioBlob
             /\ audioUrl' = IF made THEN url ELSE audioUrl
             /\ urlCount' = IF made THEN url ELSE urlCount
             /\ artifactStarts' = IF made THEN nCalls ELSE artifactStarts
             /\ tracksLive' = stopTracks(tracksLive, streamRef)
             /\ revokedUrls' = IF made THEN revokeUrl(audioUrl) ELSE revokedUrls
             /\ sinkPlaying' = IF made THEN FALSE ELSE sinkPlaying
             /\ sessionState' = "Stopped"
     ELSE UNCHANGED <<isRecording, timerActive, rec, audioBlob, audioUrl,
                      urlCount, tracksLive, revokedUrls, sinkPlaying,
                      artifactStarts, sessionState>>
  /\ UNCHANGED <<config, isPlaying, recordingTime, isTranscribing, transcript,
                 transcriptError, showTranscript, refs, gum, delivered, now,
                 alertCount, fetches, nFetches, mounted>>
  /\ UNCHANGED <<uploadVars, lastDownload>>

\* a stopRecording without its isRecording test
stopRecordingUnguarded(throws) ==
  /\ ~throws
  /\ lastOp' = "stopRecording"
  /\ isRecording' = FALSE
  /\ timerActive' = clearTimer(timerActive, timerRef)
  /\ rec' = IF variant = "wav" THEN disconnectProcessor(rec, processorRef)
            ELSE IF mediaRecorderRef # 0 /\ rec[mediaRecorderRef] = "recording"
            THEN [rec EXCEPT ![mediaRecorderRef] = "stopping"]
            ELSE rec
  /\ tracksLive' = IF variant = "wav" THEN stopTracks(tracksLive, streamRef)
                   ELSE tracksLive
  /\ sessionState' = "Stopped"
  /\ UNCHANGED <<config, isPlaying, recordingTime, audioBlob, audioUrl,
                 isTranscribing, transcript, transcriptError, showTranscript,
                 refs, gum, delivered, urlCount, revokedUrls, sinkPlaying, now,
                 alertCount, fetches, nFetches, mounted>>
  /\ UNCHANGED <<uploadVars, lastDownload, artifactStarts>>

stopRecording(throws) ==
  IF variant = "wav" THEN ~throws /\ stopRecordingWav
  ELSE /\ (throws => mediaRecorderRef # 0 /\ isRecording
                     /\ rec[mediaRecorderRef] # "recording")
       /\ stopRecordingMR(throws)

ClickStop == mounted /\ StopVisible /\ \E throws \in BOOLEAN : stopRecording(throws)

\* ---------------------------------------------------------------- onstop
\* the task recorder k queues when it stops: the last dataavailable, then
\* mediaRecorder.onstop; setAudioUrl re-renders and runs the effect cleanup
\* onstop if it also posted the new artifact to the transcription endpoint
onstopSubmits(k) ==
  /\ MediaRecorderVariant
  /\ rec[k] = "stopping"
  /\ \E size \in (IF nChunks < MaxChunks THEN ChunkSizes ELSE {0}) :
       LET chunk == [rec |-> k, seq |-> Len(delivered[k]) + 1, size |-> size]
           chunks == IF size > 0 THEN Append(chunksRef, chunk) ELSE chunksRef
           url == urlCount + 1
           tl == stopTracks(tracksLive, streamRef)
       IN /\ chunksRef' = chunks
          /\ delivered' = [delivered EXCEPT ![k] = Append(@, chunk)]
          /\ audioBlob' = SetState(audioBlob, NewBlob(chunks, getSupportedMimeType))
          /\ audioUrl' = SetState(audioUrl, url)
          /\ urlCount' = url
          /\ artifactStarts' = SetState(artifactStarts, nCalls)
          /\ tracksLive' = tl
          /\ rec' = tracksEnded([rec EXCEPT ![k] = "inactive"], tl)
          /\ timerActive' = IF mounted THEN clearTimer(timerActive, timerRef)
                            ELSE timerActive
          /\ revokedUrls' = IF mounted THEN revokeUrl(audioUrl) ELSE revokedUrls
          /\ sinkPlaying' = IF mounted THEN FALSE ELSE sinkPlaying
  /\ lastOp' = "onstop"
  /\ UNCHANGED <<config, isRecording, isPlaying, recordingTime, isTranscribing,
                 transcript, transcriptError, showTranscript, mediaRecorderRef,
                 streamRef, timerRef, startTimeRef, processorRef, audioDataRef,
                 gum, now, alertCount, mounted, sessionState>>
  /\ fetches' = IF nFetches < MaxFetches THEN fetches + 1 ELSE fetches
  /\ nFetches' = IF nFetches < MaxFetches THEN nFetches + 1 ELSE nFetches
  /\ UNCHANGED <<uploadVars, lastDownload>>

onstop(k) ==
  /\ MediaRecorderVariant
  /\ rec[k] = "stopping"
  /\ \E size \in (IF nChunks < MaxChunks THEN ChunkSizes ELSE {0}) :
       LET chunk == [rec |-> k, seq |-> Len(delivered[k]) + 1, size |-> size]
           chunks == IF size > 0 THEN Append(chunksRef, chunk) ELSE chunksRef
           url == urlCount + 1
           tl == stopTracks(tracksLive, streamRef)
       IN /\ chunksRef' = chunks
          /\ delivered' = [delivered EXCEPT ![k] = Append(@, chunk)]
          /\ audioBlob' = SetState(audioBlob, NewBlob(chunks, getSupportedMimeType))
          /\ audioUrl' = SetState(audioUrl, url)
          /\ urlCount' = url
          /\ artifactStarts' = SetState(artifactStarts, nCalls)
          /\ tracksLive' = tl
          /\ rec' = tracksEnded([rec EXCEPT ![k] = "inactive"], tl)
          /\ timerActive' = IF mounted THEN clearTimer(timerActive, timerRef)
                            ELSE timerActive
          /\ revokedUrls' = IF mounted THEN revokeUrl(audioUrl) ELSE revokedUrls
          /\ sinkPlaying' = IF mounted THEN FALSE ELSE sinkPlaying
  /\ lastOp' = "onstop"
  /\ UNCHANGED <<config, isRecording, isPlaying, recordingTime, isTranscribing,
                 transcript, transcriptError, showTranscript, mediaRecorderRef,
                 streamRef, timerRef, startTimeRef, processorRef, audioDataRef,
                 gum, now, alertCount, fetches, nFetches, mounted, sessionState>>
  /\ UNCHANGED <<uploadVars, lastDownload>>

\* ------------------------------------------------------- resetRecording
\* transcription variant only; setAudioUrl(null) re-renders, which removes
\* the audio element and runs the cleanup of the effect keyed on audioUrl
resetRecording ==
  /\ variant = "transcribe"
  /\ isRecording' = FALSE
  /\ isPlaying' = FALSE
  /\ recordingTime' = 0
  /\ audioBlob' = NoBlob
  /\ audioUrl' = 0
  /\ isTranscribing' = FALSE
  /\ transcript' = Null
  /\ transcriptError' = Null
  /\ showTranscript' = FALSE
  /\ sinkPlaying' = FALSE
  /\ IF audioUrl # 0
     THEN LET tl == stopTracks(tracksLive, streamRef)
          IN /\ timerActive' = clearTimer(timerActive, timerRef)
             /\ tracksLive' = tl
             /\ rec' = tracksEnded(rec, tl)
             /\ revokedUrls' = revokeUrl(audioUrl)
     ELSE UNCHANGED <<timerActive, tracksLive, rec, revokedUrls>>
  /\ artifactStarts' = 0
  /\ sessionState' = "Idle"
  /\ lastOp' = "resetRecording"
  /\ UNCHANGED <<config, refs, gum, delivered, urlCount, now, alertCount,
                 fetches, nFetches, mounted>>
  /\ UNCHANGED <<uploadVars, lastDownload>>

ClickReset == mounted /\ PlaybackVisible /\ resetRecording

\* ------------------------------------------------------------- unmount
\* the cleanup of the effect, run when the component is torn down
Unmount ==
  /\ mounted
  /\ mounted' = FALSE
  /\ LET tl == stopTracks(tracksLive, streamRef)
     IN /\ timerActive' = clearTimer(timerActive, timerRef)
        /\ tracksLive' = tl
        /\ rec' = IF variant = "wav" THEN disconnectProcessor(rec, processorRef)
                  ELSE tracksEnded(rec, tl)
        /\ revokedUrls' = revokeUrl(audioUrl)
  /\ sinkPlaying' = FALSE
  /\ lastOp' = "unmount"
  /\ UNCHANGED <<config, reactState, refs, gum, delivered, urlCount, now,
                 alertCount, fetches, nFetches, sessionState>>
  /\ UNCHANGED <<uploadVars, lastDownload, artifactStarts>>

\* --------------------------------------------------------------- timers
\* the callback of the interval created by startRecording call k
TimerTick(k) ==
  /\ timerActive[k]
  /\ IF variant = "transcribe"
     THEN recordingTime' = IF startTimeRef # 0
                           THEN SetState(recordingTime, now - startTimeRef)
                           ELSE recordingTime
     ELSE /\ recordingTime < MaxTime
          /\ recordingTime' = SetState(recordingTime, recordingTime + 1)
  /\ lastOp' = "timerTick"
  /\ UNCHANGED <<config, isRecording, isPlaying, audioBlob, audioUrl,
                 isTranscribing, transcript, transcriptError, showTranscript,
                 refs, browser, mounted, sessionState>>
  /\ UNCHANGED <<uploadVars, lastDownload, artifactStarts>>

\* Date.now() advances
ClockAdvance ==
  /\ variant = "transcribe"
  /\ now < MaxTime
  /\ now' = now + 1
  /\ UNCHANGED <<config, reactState, refs, gum, tracksLive, rec, timerActive,
                 delivered, urlCount, revokedUrls, sinkPlaying, alertCount,
                 fetches, nFetches, mounted, sessionState, lastOp>>
  /\ UNCHANGED <<uploadVars, lastDownload, artifactStarts>>

\* ------------------------------------------------------------- playback
\* playOk: the sink accepts the play() request
togglePlayback(playOk) ==
  /\ audioUrl # 0
  /\ IF isPlaying
     THEN sinkPlaying' = FALSE /\ isPlaying' = FALSE
     ELSE sinkPlaying' = (sinkPlaying \/ playOk) /\ isPlaying' = TRUE
  /\ lastOp' = "togglePlayback"
  /\ UNCHANGED <<config, isRecording, recordingTime, audioBlob, audioUrl,
                 isTranscribing, transcript, transcriptError, showTranscript,
                 refs, gum, tracksLive, rec, timerActive, delivered, urlCount,
                 revokedUrls, now, alertCount, fetches, nFetches, mounted,
                 sessionState>>
  /\ UNCHANGED <<uploadVars, lastDownload, artifactStarts>>

ClickPlay == mounted /\ PlaybackVisible /\ \E playOk \in BOOLEAN : togglePlayback(playOk)

\* the sink reaches the end of the artifact, or is paused from outside
handleEnded ==
  /\ mounted /\ audioUrl # 0 /\ sinkPlaying
  /\ sinkPlaying' = FALSE
  /\ isPlaying' = FALSE
  /\ lastOp' = "handleEnded"
  /\ UNCHANGED <<config, isRecording, recordingTime, audioBlob, audioUrl,
                 isTranscribing, transcript, transcriptError, showTranscript,
                 refs, gum, tracksLive, rec, timerActive, delivered, urlCount,
                 revokedUrls, now, alertCount, fetches, nFetches, mounted,
                 sessionState>>
  /\ UNCHANGED <<uploadVars, lastDownload, artifactStarts>>

\* ------------------------------------------------------------- download
\* String.prototype.includes
includes(s, sub) ==
  \E i \in 1..(Len(s) - Len(sub) + 1) : SubSeq(s, i, i + Len(sub) - 1) = sub

\* an if-chain that names MP4 audio .mp4
extensionMp4(mimeType) ==
  IF includes(mimeType, "mp4") THEN "mp4"
  ELSE IF includes(mimeType, "webm") THEN "webm"
  ELSE IF includes(mimeType, "ogg") THEN "ogg"
  ELSE IF includes(mimeType, "wav") THEN "wav"
  ELSE "mp3"

\* the if-chain of downloadAudio (upload and transcription variants)
extension(mimeType) ==
  IF includes(mimeType, "mp4") THEN "m4a"
  ELSE IF includes(mimeType, "webm") THEN "webm"
  ELSE IF includes(mimeType, "ogg") THEN "ogg"
  ELSE IF includes(mimeType, "wav") THEN "wav"
  ELSE "mp3"

\* the WAV variant names the file .wav whatever the type
downloadAudio ==
  /\ audioBlob # NoBlob /\ audioUrl # 0
  /\ lastDownload' = IF variant = "wav" THEN "wav"
                     ELSE extension(audioBlob[1].type)
  /\ lastOp' = "downloadAudio"
  /\ UNCHANGED <<config, reactState, refs, gum, tracksLive, rec, timerActive,
                 delivered, urlCount, revokedUrls, sinkPlaying, now,
                 alertCount, fetches, nFetches, mounted, sessionState>>
  /\ UNCHANGED <<uploadVars, artifactStarts>>

ClickDownload == mounted /\ PlaybackVisible /\ downloadAudio

\* --------------------------------------------------------------- upload
\* WAV and upload variants; the page passes onUpload={handleAudioUpload}
nUploadCalls == Cardinality({u \in Uploads : uploads[u] # "none"})

\* up to the await of onUpload(audioBlob): the progress interval is created
\* and the handler is called with the artifact
uploadAudio ==
  /\ variant \in {"wav", "upload"}
  /\ audioBlob # NoBlob
  /\ nUploadCalls < MaxUploads
  /\ LET u == nUploadCalls + 1
     IN /\ progressActive' = [progressActive EXCEPT ![u] = TRUE]
        /\ uploads' = [uploads EXCEPT ![u] = "pending"]
  /\ isUploading' = TRUE
  /\ uploadProgress' = 0
  /\ lastOp' = "uploadAudio"
  /\ UNCHANGED <<config, isRecording, isPlaying, recordingTime, audioBlob,
                 audioUrl, isTranscribing, transcript, transcriptError,
                 showTranscript, refs, gum, tracksLive, rec, timerActive,
                 delivered, urlCount, revokedUrls, sinkPlaying, now,
                 alertCount, fetches, nFetches, uploadTimeouts, lastDownload, artifactStarts,
                 mounted, sessionState>>

\* the upload section is rendered with audioBlob, its button
\* disabled={isUploading}
ClickUpload == mounted /\ audioBlob # NoBlob /\ ~isUploading /\ uploadAudio

\* the callback of the progress interval of call u, every 200 ms:
\* setUploadProgress(prev => prev >= 90 ? (clearInterval, 90) : prev + 10);
\* the updater of an unmounted component does not run
progressTick(u) ==
  /\ progressActive[u]
  /\ IF mounted
     THEN IF uploadProgress >= 90
          THEN /\ progressActive' = [progressActive EXCEPT ![u] = FALSE]
               /\ uploadProgress' = 90
          ELSE /\ uploadProgress' = uploadProgress + 10
               /\ UNCHANGED progressActive
     ELSE UNCHANGED <<progressActive, uploadProgress>>
  /\ lastOp' = "progressTick"
  /\ UNCHANGED <<config, isRecording, isPlaying, recordingTime, audioBlob,
                 audioUrl, isTranscribing, transcript, transcriptError,
                 showTranscript, isUploading, refs, gum, tracksLive, rec,
                 timerActive, delivered, urlCount, revokedUrls, sinkPlaying,
                 now, alertCount, fetches, nFetches, uploads, uploadTimeouts,
                 lastDownload, artifactStarts, mounted, sessionState>>

\* onUpload settles: the rest of try, or catch
uploadAudioResumed(u, ok) ==
  /\ uploads[u] = "pending"
  /\ IF ok
     THEN /\ uploads' = [uploads EXCEPT ![u] = "done"]
          /\ uploadProgress' = SetState(uploadProgress, 100)
          /\ uploadTimeouts' = [uploadTimeouts EXCEPT ![u] = TRUE]
          /\ UNCHANGED <<isUploading, alertCount>>
     ELSE /\ uploads' = [uploads EXCEPT ![u] = "failed"]
          /\ isUploading' = SetState(isUploading, FALSE)
          /\ uploadProgress' = SetState(uploadProgress, 0)
          /\ alertCount' = alertCount + 1
          /\ UNCHANGED uploadTimeouts
  /\ lastOp' = "uploadAudioResumed"
  /\ UNCHANGED <<config, isRecording, isPlaying, recordingTime, audioBlob,
                 audioUrl, isTranscribing, transcript, transcriptError,
                 showTranscript, refs, gum, tracksLive, rec, timerActive,
                 delivered, urlCount, revokedUrls, sinkPlaying, now, fetches,
                 nFetches, progressActive, lastDownload, artifactStarts, mounted,
                 sessionState>>

\* the 500 ms timeout set after a successful upload
uploadTimeout(u) ==
  /\ uploadTimeouts[u]
  /\ uploadTimeouts' = [uploadTimeouts EXCEPT ![u] = FALSE]
  /\ isUploading' = SetState(isUploading, FALSE)
  /\ uploadProgress' = SetState(uploadProgress, 0)
  /\ lastOp' = "uploadTimeout"
  /\ UNCHANGED <<config, isRecording, isPlaying, recordingTime, audioBlob,
                 audioUrl, isTranscribing, transcript, transcriptError,
                 showTranscript, refs, gum, tracksLive, rec, timerActive,
                 delivered, urlCount, revokedUrls, sinkPlaying, now,
                 alertCount, fetches, nFetches, progressActive, uploads,
                 lastDownload, artifactStarts, mounted, sessionState>>

\* -------------------------------------------------------- transcribeAudio
\* what the transcription endpoint may answer
Transcripts == {"hello"}
Details == {"", "file too large"}
Responses ==
  {[kind |-> "ok", body |-> t] : t \in Transcripts}
  \cup {[kind |-> "http", body |-> d] : d \in Details \cup {Null}}
  \cup {[kind |-> "badjson", body |-> Null], [kind |-> "network", body |-> Null]}

\* a catch block that ignores the response's detail
errorMessageGeneric(resp) == "Transcription failed"

\* the message of the Error the catch block receives:
\*   non-2xx: new Error(errorData.detail || "Transcription failed")
\*   non-2xx without a JSON body: the SyntaxError of response.json()
\*   no response: the TypeError of fetch
errorMessage(resp) ==
  CASE resp.kind = "http" ->
         IF resp.body = Null \/ resp.body = "" THEN "Transcription failed"
         ELSE resp.body
    [] resp.kind = "badjson" -> "Unexpected token"
    [] OTHER -> "Failed to fetch"

\* up to the await of fetch
transcribeAudio ==
  /\ variant = "transcribe"
  /\ audioBlob # NoBlob
  /\ nFetches < MaxFetches
  /\ isTranscribing' = TRUE
  /\ transcriptError' = Null
  /\ transcript' = Null
  /\ fetches' = fetches + 1
  /\ nFetches' = nFetches + 1
  /\ lastOp' = "transcribeAudio"
  /\ UNCHANGED <<config, isRecording, isPlaying, recordingTime, audioBlob,
                 audioUrl, showTranscript, refs, gum, tracksLive, rec,
                 timerActive, delivered, urlCount, revokedUrls, sinkPlaying,
                 now, alertCount, mounted, sessionState>>
  /\ UNCHANGED <<uploadVars, lastDownload, artifactStarts>>

\* the Transcribe button is rendered with audioUrl, disabled={isTranscribing}
ClickTranscribe == mounted /\ PlaybackVisible /\ ~isTranscribing /\ transcribeAudio

\* the request completes: the rest of try, catch and finally
transcribeAudioResumed(resp) ==
  /\ fetches > 0
  /\ fetches' = fetches - 1
  /\ IF resp.kind = "ok"
     THEN /\ transcript' = SetState(transcript, resp.body)
          /\ showTranscript' = SetState(showTranscript, TRUE)
          /\ transcriptError' = transcriptError
     ELSE /\ transcriptError' = SetState(transcriptError, errorMessage(resp))
          /\ UNCHANGED <<transcript, showTranscript>>
  /\ isTranscribing' = SetState(isTranscribing, FALSE)
  /\ lastOp' = IF resp.kind = "ok" THEN "transcribeOk" ELSE "transcribeFailed"
  /\ UNCHANGED <<config, isRecording, isPlaying, recordingTime, audioBlob,
                 audioUrl, refs, gum, tracksLive, rec, timerActive, delivered,
                 urlCount, revokedUrls, sinkPlaying, now, alertCount, nFetches,
                 mounted, sessionState>>
  /\ UNCHANGED <<uploadVars, lastDownload, artifactStarts>>

\* ----------------------------------------------------------------- Next
Next ==
  \/ ClickStart
  \/ \E k \in Starts : startRecordingRejected(k)
  \/ \E k \in Starts : startRecordingResumed(k)
  \/ \E k \in Starts, contextOk \in BOOLEAN : startRecordingResumedWav(k, contextOk)
  \/ \E k \in Starts, size \in ChunkSizes : ondataavailable(k, size)
  \/ \E k \in Starts, v \in Samples : onaudioprocess(k, v)
  \/ ClickStop
  \/ \E k \in Starts : onstop(k)
  \/ ClickReset
  \/ Unmount
  \/ \E k \in Starts : TimerTick(k)
  \/ ClockAdvance
  \/ ClickPlay
  \/ handleEnded
  \/ ClickDownload
  \/ ClickTranscribe
  \/ \E resp \in Responses : transcribeAudioResumed(resp)

Spec == Init /\ [][Next]_vars

\* the operations called directly, as the specification's stop(): the
\* handler runs whatever the render shows
CallStop == mounted /\ \E throws \in BOOLEAN : stopRecording(throws)

NextApi == Next \/ CallStop

SpecApi == Init /\ [][NextApi]_vars

\* the recorder mounted with onUpload, used for one recording after another:
\* start is clicked again only once the earlier device request and
\* finalization have settled
ClickStartSettled ==
  /\ \A j \in Starts : gum[j] # "pending" /\ rec[j] # "stopping"
  /\ ClickStart

NextUpload ==
  \/ ClickStartSettled
  \/ \E k \in Starts : startRecordingRejected(k)
  \/ \E k \in Starts : startRecordingResumed(k)
  \/ \E k \in Starts, contextOk \in BOOLEAN : startRecordingResumedWav(k, contextOk)
  \/ \E k \in Starts, size \in ChunkSizes : ondataavailable(k, size)
  \/ \E k \in Starts : onaudioprocess(k, 0)
  \/ ClickStop
  \/ \E k \in Starts : onstop(k)
  \/ ClickReset
  \/ Unmount
  \/ \E k \in Starts : TimerTick(k)
  \/ ClockAdvance
  \/ ClickPlay
  \/ handleEnded
  \/ ClickDownload
  \/ ClickUpload
  \/ \E u \in Uploads : progressTick(u)
  \/ \E u \in Uploads, ok \in BOOLEAN : uploadAudioResumed(u, ok)
  \/ \E u \in Uploads : uploadTimeout(u)
  \/ ClickTranscribe
  \/ \E resp \in Responses : transcribeAudioResumed(resp)

SpecUpload == Init /\ [][NextUpload]_vars

\* one recording after another, stopped and downloaded, in a runtime that
\* supports any subset of the preference list
TypeSet == {types[i] : i \in 1..Len(types)}

InitAnyRuntime == InitFor(SUBSET TypeSet)

NextCapture ==
  \/ ClickStartSettled
  \/ \E k \in Starts : startRecordingResumed(k)
  \/ \E k \in Starts, contextOk \in BOOLEAN : startRecordingResumedWav(k, contextOk)
  \/ \E k \in Starts, size \in ChunkSizes : ondataavailable(k, size)
  \/ \E k \in Starts, v \in Samples : onaudioprocess(k, v)
  \/ ClickStop
  \/ \E k \in Starts : onstop(k)
  \/ ClickDownload

SpecCapture == InitAnyRuntime /\ [][NextCapture]_vars

\* ------------------------------------------------------------ vocabulary
Recording == sessionState = "Recording"
Stopped == sessionState = "Stopped"
Idle == sessionState = "Idle"

ArtifactDefined == audioBlob # NoBlob /\ audioUrl # 0
ArtifactUndefined == audioBlob = NoBlob /\ audioUrl = 0

OpenStreams == {k \in Starts : tracksLive[k]}
ActiveTimers == {k \in Starts : timerActive[k]}
PendingRequests == {k \in Starts : gum[k] = "pending"}
FinalizePending == \E k \in Starts : rec[k] = "stopping"

\* ------------------------------------------------------------------ C1
\* C1: in every reachable state of a mounted recorder the artifact
\* (audioBlob/audioUrl) is defined if and only if the session is Stopped.
C1_ArtifactIffStopped ==
  mounted => (ArtifactDefined <=> Stopped) /\ (ArtifactUndefined <=> ~Stopped)

\* ------------------------------------------------------------------ C2
\* C2: at most one input-device stream has un-stopped tracks at any time,
\* and an open stream is the one streamRef refers to.
C2_AtMostOneOpenStream ==
  /\ Cardinality(OpenStreams) <= 1
  /\ \A k \in OpenStreams : streamRef = k

\* ------------------------------------------------------------------ C3
\* C3: from reset() until the next start() (the session is Idle) chunks is
\* empty, the artifact is undefined and elapsed is 0.
C3_ResetLeavesIdleAndEmpty ==
  mounted /\ Idle =>
    /\ ~isRecording
    /\ chunksRef = <<>> /\ audioDataRef = <<>>
    /\ ArtifactUndefined
    /\ recordingTime = 0

\* ------------------------------------------------------------------ C4
\* C4: the step in which a start()'s device request is denied changes
\* nothing of the session (state, chunks, artifact, elapsed, timers, streams,
\* recorders), leaves no timer, stream or recorder of that start() behind,
\* raises exactly one alert and issues no further device request.
C4_DeniedStartChangesNothing ==
  [][\A k \in Starts :
       startRecordingRejected(k) =>
         /\ UNCHANGED <<reactState, refs, tracksLive, rec, timerActive,
                        delivered, sessionState>>
         /\ (Idle => Idle')
         /\ ~tracksLive'[k] /\ ~timerActive'[k] /\ rec'[k] = "none"
         /\ alertCount' = alertCount + 1
         /\ PendingRequests' = PendingRequests \ {k}]_vars

\* a start() was denied while the session was Idle, and it still is
C4_Witness ==
  /\ lastOp = "startRecordingRejected" /\ Idle /\ alertCount = 1
  /\ OpenStreams = {} /\ ActiveTimers = {}

\* ------------------------------------------------------------------ C5
\* C5: no stream with un-stopped tracks remains once the session is Idle
\* (after reset() or a start() that threw), once stop() has completed and the
\* artifact is finalized, or once the component is torn down.
C5_DeviceReleasedOnEveryExit ==
  (~mounted \/ Idle \/ (Stopped /\ ~FinalizePending)) => OpenStreams = {}

\* ------------------------------------------------------------------ C6
\* C6: a stop() called while the session is Idle or Stopped changes no state
\* variable, ref, timer, stream or recorder.
C6_StopWhenNotRecordingIsNoOp ==
  [][(~Recording /\ \E throws \in BOOLEAN : stopRecording(throws)) =>
       UNCHANGED <<config, reactState, refs, browser, mounted,
                   sessionState>>]_vars

\* stop() has been called in a session that reset() made Idle
C6_Witness ==
  /\ lastOp = "stopRecording" /\ Idle /\ mediaRecorderRef # 0
  /\ ArtifactUndefined

\* ------------------------------------------------------------------ C7
\* C7: a timer tick changes elapsed (recordingTime) only while the session
\* is Recording.
C7_ElapsedOnlyWhileRecording ==
  [][(~Recording /\ \E k \in Starts : TimerTick(k)) =>
       recordingTime' = recordingTime]_vars

\* ------------------------------------------------------------------ C8
\* C8: the artifact a recorder's finalize callback produces is the
\* concatenation, in arrival order, of the chunks that recorder delivered,
\* tagged with the selected media type, its size the sum of their sizes, and
\* the session is then Stopped.
C8_ArtifactIsConcatenation ==
  [][\A k \in Starts :
       (mounted /\ onstop(k)) =>
         /\ audioBlob' = NewBlob(NonEmpty(delivered'[k]), getSupportedMimeType)
         /\ audioBlob'[1].size = SumSizes(delivered'[k])
         /\ Stopped']_vars

\* ------------------------------------------------------------------ C9
\* C9: once stop() has been processed and no finalize callback is pending,
\* the session is Stopped with a defined artifact.
C9_StopAlwaysFinalizes ==
  (mounted /\ Stopped /\ ~FinalizePending) => ArtifactDefined

\* ----------------------------------------------------------------- C10
\* C10 as claimed: a non-2xx response with a detail string sets the error
\* message to that string, leaves the artifact unchanged and re-enables
\* submission.
C10_DetailVerbatim ==
  [][\A resp \in Responses :
       (mounted /\ resp.kind = "http" /\ resp.body # Null
        /\ transcribeAudioResumed(resp)) =>
         /\ transcriptError' = resp.body
         /\ audioBlob' = audioBlob /\ audioUrl' = audioUrl
         /\ isTranscribing' = FALSE]_vars

\* C10 as amended: the same for a non-empty detail string; an empty one
\* gives the message "Transcription failed".
C10_NonEmptyDetailVerbatim ==
  [][\A resp \in Responses :
       (mounted /\ resp.kind = "http" /\ resp.body # Null
        /\ transcribeAudioResumed(resp)) =>
         /\ transcriptError' =
              (IF resp.body = "" THEN "Transcription failed" ELSE resp.body)
         /\ audioBlob' = audioBlob /\ audioUrl' = audioUrl
         /\ isTranscribing' = FALSE]_vars

\* a second submission of the artifact was answered 413 "file too large"
C10_Witness ==
  /\ lastOp = "transcribeFailed" /\ transcriptError = "file too large"
  /\ ArtifactDefined /\ ~isTranscribing /\ nFetches = 2 /\ fetches = 0

\* ----------------------------------------------------------------- C11
\* media types the mapping is applied to besides those of the artifacts
MediaTypes ==
  TypeSet \cup {"audio/wav", "audio/mpeg", "", "audio/x-wav; note=mp4",
                "video/webm; codecs=ogg", "application/ogg+wav"}

\* C11: the extension is a total function of the media type, by priority
\* mp4 (m4a), webm, ogg, wav, else mp3, and the download of every variant
\* names its file with the extension this mapping gives for the artifact.
C11_DownloadExtension ==
  LET has(t, x) == \E i \in 1..Len(t) :
                     i + Len(x) - 1 <= Len(t) /\ SubSeq(t, i, i + Len(x) - 1) = x
      mapping(t) ==
        CASE has(t, "mp4") -> "m4a"
          [] ~has(t, "mp4") /\ has(t, "webm") -> "webm"
          [] ~has(t, "mp4") /\ ~has(t, "webm") /\ has(t, "ogg") -> "ogg"
          [] ~has(t, "mp4") /\ ~has(t, "webm") /\ ~has(t, "ogg")
               /\ has(t, "wav") -> "wav"
          [] OTHER -> "mp3"
  IN /\ \A t \in MediaTypes : extension(t) = mapping(t)
     /\ lastOp = "downloadAudio" =>
          /\ audioBlob # NoBlob
          /\ lastDownload = mapping(audioBlob[1].type)

\* an artifact recorded as AAC in MP4 has been downloaded as .m4a
C11_Witness ==
  /\ lastOp = "downloadAudio" /\ lastDownload = "m4a"
  /\ audioBlob # NoBlob /\ audioBlob[1].type = types[1]

\* ----------------------------------------------------------------- C12
\* C12: the buffer encodeWAV returns for N samples has 44 + 2N bytes, "RIFF"
\* at 0, "WAVE" at 8, "data" at 36, the little-endian field at 4 equal to
\* 36 + 2N and the field at 40 equal to 2N, for N = 0 as for the N that
\* stop() encodes, which is the sum of the lengths of the buffered frames.
C12_EncodeWAVLayout ==
  [][LET u32(b, off) == b[off + 1] + 256 * b[off + 2] + 65536 * b[off + 3]
                        + 16777216 * b[off + 4]
         wellFormed(buf, N) ==
           /\ buf.size = 44 + 2 * N
           /\ Len(buf.header) = 44
           /\ SubSeq(buf.header, 1, 4) = <<82, 73, 70, 70>>
           /\ SubSeq(buf.header, 9, 12) = <<87, 65, 86, 69>>
           /\ SubSeq(buf.header, 37, 40) = <<100, 97, 116, 97>>
           /\ u32(buf.header, 4) = 36 + 2 * N
           /\ u32(buf.header, 40) = 2 * N
           /\ SeqSum([i \in 1..Len(buf.pcm) |-> buf.pcm[i].len]) = N
     IN (variant = "wav" /\ isRecording /\ audioDataRef # <<>>
         /\ stopRecordingWav) =>
          /\ wellFormed(encodeWAV(<<>>), 0)
          /\ audioBlob' # NoBlob
          /\ wellFormed(audioBlob'[1].parts[1],
                        SeqSum([i \in 1..Len(audioDataRef) |-> FrameLen]))
          /\ audioBlob'[1].size = audioBlob'[1].parts[1].size]_vars

\* stop() has encoded two buffered frames: 8192 samples, 16428 bytes
C12_Witness ==
  /\ variant = "wav" /\ lastOp = "stopRecording" /\ Len(audioDataRef) = 2
  /\ audioBlob # NoBlob /\ audioBlob[1].size = 16428

\* ----------------------------------------------------------------- C13
\* C13: quantization clamps to [-1, 1], is monotonic non-decreasing, yields
\* values in [-32768, 32767] and maps 1.0 to 32767, -1.0 to -32768, 0 to 0:
\* of the samples a frame may hold, and of the frames stop() has encoded.
C13_QuantizationClampsMonotonic ==
  [][(variant = "wav" /\ isRecording /\ audioDataRef # <<>>
      /\ stopRecordingWav) =>
       LET pcm == audioBlob'[1].parts[1].pcm
           I == 1..Len(audioDataRef)
           f(x) == floatTo16BitPCM(x)
           One == SampleDen
       IN /\ Len(pcm) = Len(audioDataRef)
          /\ \A i \in I :
               /\ pcm[i].q \in -32768..32767
               /\ audioDataRef[i].v >= One => pcm[i].q = 32767
               /\ audioDataRef[i].v <= -One => pcm[i].q = -32768
               /\ audioDataRef[i].v = 0 => pcm[i].q = 0
          /\ \A i, j \in I :
               audioDataRef[i].v <= audioDataRef[j].v => pcm[i].q <= pcm[j].q
          /\ \A x, y \in Samples : x <= y => f(x) <= f(y)
          /\ \A x \in Samples : f(x) \in -32768..32767
          /\ f(One) = 32767 /\ f(-One) = -32768 /\ f(0) = 0]_vars

\* stop() has encoded a frame of 1.0 and a frame of -1.5
C13_Witness ==
  /\ variant = "wav" /\ lastOp = "stopRecording" /\ audioBlob # NoBlob
  /\ Len(audioDataRef) = 2
  /\ audioDataRef[1].v = SampleDen /\ audioDataRef[2].v = -6
  /\ audioBlob[1].parts[1].pcm[1].q = 32767
  /\ audioBlob[1].parts[1].pcm[2].q = -32768

\* ----------------------------------------------------------------- C14
\* C14: whenever the session is Recording, chunks (chunksRef, audioDataRef
\* in the WAV variant) is non-empty and the artifact is undefined.
C14_RecordingHasChunksNoArtifact ==
  (mounted /\ Recording) =>
    /\ (IF variant = "wav" THEN audioDataRef # <<>> ELSE chunksRef # <<>>)
    /\ ArtifactUndefined

C16_StopOrdering ==
  [][/\ \A k \in Starts :
          (mounted /\ Stopped /\ onstop(k)) =>
            /\ ~timerActive[k]
            /\ tracksLive[k] /\ ~tracksLive'[k]
            /\ ArtifactDefined'
     /\ (mounted /\ variant = "wav" /\ isRecording /\ audioDataRef # <<>>
         /\ stopRecordingWav) =>
            /\ ~timerActive'[processorRef]
            /\ tracksLive[processorRef] /\ ~tracksLive'[processorRef]
            /\ ArtifactDefined']_vars

\* ----------------------------------------------------------------- C17
\* C17: getSupportedMimeType is the entry of least index of the preference
\* list that the runtime supports, "audio/webm" when it supports none, and
\* the type of every artifact is that value.
C17_FirstSupportedType ==
  LET idx == {i \in 1..Len(types) : types[i] \in supported}
      selected == IF idx = {} THEN "audio/webm"
                  ELSE types[CHOOSE i \in idx : \A j \in idx : i <= j]
  IN MediaRecorderVariant =>
       /\ getSupportedMimeType = selected
       /\ \A k \in Starts : rec[k] # "none" => selected \in supported
       /\ audioBlob # NoBlob => audioBlob[1].type = selected

\* an artifact recorded as Opus in Ogg, the fifth preference, in a runtime
\* that supports Ogg only
C17_Witness ==
  /\ MediaRecorderVariant /\ supported = {types[5], types[6]}
  /\ audioBlob # NoBlob /\ audioBlob[1].type = types[5]

\* ----------------------------------------------------------------- C18
\* C18: after every processed event isPlaying equals whether the playback
\* sink is playing.
C18_IsPlayingFollowsSink ==
  mounted => (isPlaying <=> sinkPlaying)


\* C19: once a recording has been finalized, audioBlob and audioUrl stay as
\* they are until the next reset or start: a step that replaces a defined
\* artifact is resetRecording, or the finalization of a recording whose
\* startRecording was invoked after the artifact was set
C19_ArtifactImmutable ==
  [][(/\ mounted
      /\ ArtifactDefined
      /\ <<audioBlob, audioUrl>>' # <<audioBlob, audioUrl>>)
     => \/ resetRecording
        \/ \E k \in Starts : k > artifactStarts /\ onstop(k)
        \/ processorRef > artifactStarts /\ stopRecordingWav]_vars


\* C20: audio leaves the component only by an explicit user action: a step
\* that issues the transcription request or calls onUpload is a click on
\* Transcribe or on Upload, made while an artifact exists
C20_SubmitOnlyOnClick ==
  [][(\/ nFetches' # nFetches
      \/ fetches' > fetches
      \/ \E u \in Uploads : uploads[u] = "none" /\ uploads'[u] # "none")
     => /\ ClickTranscribe \/ ClickUpload
        /\ mounted
        /\ audioBlob # NoBlob]_vars

C20_Witness ==
  /\ lastOp = "uploadAudio"
  /\ uploads[1] = "pending"
  /\ isUploading
  /\ audioBlob # NoBlob

\* C21: a download of a MediaRecorder recording is saved as an MP3 file:
\* after downloadAudio the file name's extension is mp3, whatever type
\* getSupportedMimeType gave the artifact
C21_DownloadIsMp3 ==
  (MediaRecorderVariant /\ lastOp = "downloadAudio") => lastDownload = "mp3"

\* C22: the data callback appends each delivered chunk of size > 0 to the
\* end of chunks and nothing for an empty one; a start that is granted
\* clears chunks and no other step changes them, so chunks holds only
\* non-empty chunks and those of one recorder are a suffix, in arrival
\* order, of what that recorder delivered.  The frames of the WAV variant
\* likewise.
C22_ChunksInArrivalOrder ==
  [][LET arrived(k) == IF Len(delivered'[k]) > Len(delivered[k])
                       THEN <<delivered'[k][Len(delivered'[k])]>> ELSE <<>>
         RECURSIVE arrivals(_)
         arrivals(k) == IF k = 0 THEN <<>> ELSE arrivals(k - 1) \o arrived(k)
         new == NonEmpty(arrivals(MaxStarts))
         started == \E k \in Starts : gum[k] = "pending" /\ gum'[k] = "granted"
         of(list, k) == SelectSeq(list, LAMBDA c : c.rec = k)
         isSuffix(a, b) == /\ Len(a) <= Len(b)
                           /\ a = SubSeq(b, Len(b) - Len(a) + 1, Len(b))
         ordered(list) ==
           /\ \A i \in 1..Len(list) : list[i].size > 0
           /\ \A k \in Starts : isSuffix(of(list, k), NonEmpty(delivered'[k]))
     IN /\ Len(arrivals(MaxStarts)) <= 1
        /\ IF variant = "wav"
           THEN /\ audioDataRef' = IF started THEN <<>> ELSE audioDataRef \o new
                /\ ordered(audioDataRef')
                /\ chunksRef' = chunksRef
           ELSE /\ chunksRef' = IF started THEN <<>> ELSE chunksRef \o new
                /\ ordered(chunksRef')
                /\ audioDataRef' = audioDataRef]_vars

C22_Witness ==
  /\ MediaRecorderVariant
  /\ lastOp = "ondataavailable"
  /\ \E k \in Starts :
       /\ Len(delivered[k]) = 2
       /\ delivered[k][1].size = 0
       /\ delivered[k][2].size > 0
       /\ chunksRef = <<delivered[k][2]>>

\* C23: object URLs are created at finalization and invalidated on reset or
\* teardown: the current audioUrl of a mounted component is not revoked,
\* every other created URL is revoked (so at most one is un-revoked), and
\* after teardown every created URL is revoked
C23_UrlsRevoked ==
  LET created == 1..urlCount
      live == created \ revokedUrls
  IN /\ revokedUrls \subseteq created
     /\ Cardinality(live) <= 1
     /\ mounted => /\ audioUrl # 0 => audioUrl \notin revokedUrls
                   /\ live \subseteq {audioUrl}
     /\ ~mounted => live = {}

\* C24: at most one elapsed-time interval is active at any time and
\* timerRef refers to it, also when startRecording is invoked again before
\* an earlier device request resolved
C24_AtMostOneTimer ==
  /\ Cardinality(ActiveTimers) <= 1
  /\ \A k \in ActiveTimers : timerRef = k

\* C25: the finalize callback of a recorder affects only its own recording:
\* the artifact it sets holds exactly the non-empty chunks that recorder
\* delivered, and it stops the tracks of no other recording's stream, also
\* when another start has completed since that recorder was stopped
C25_OnstopOwnRecordingOnly ==
  [][\A k \in Starts :
       (mounted /\ onstop(k)) =>
         /\ audioBlob' # NoBlob
         /\ audioBlob'[1].parts = NonEmpty(delivered'[k])
         /\ \A j \in Starts \ {k} : tracksLive'[j] = tracksLive[j]]_vars

\* C26: after reset (no transcription outstanding for the interface,
\* transcript and transcriptError null, the panel hidden) the three stay so
\* until the user starts a transcription: no other step, the completion of
\* an earlier request included, populates them
C26_ResetDropsLateResponse ==
  [][(/\ mounted
      /\ ~isTranscribing
      /\ transcript = Null /\ transcriptError = Null /\ ~showTranscript
      /\ ~isTranscribing')
     => (transcript' = Null /\ transcriptError' = Null /\ ~showTranscript')]_vars

\* C27: isTranscribing is true exactly while a transcription request is in
\* flight, and at most one request is in flight
C27_TranscribingIffInFlight ==
  mounted => /\ isTranscribing <=> fetches > 0
             /\ fetches <= 1

\* C30: transcript and transcriptError are never both non-null, and neither
\* is non-null while the artifact is undefined
C30_TranscriptXorError ==
  (mounted /\ variant = "transcribe") =>
    /\ ~(transcript # Null /\ transcriptError # Null)
    /\ ArtifactUndefined => (transcript = Null /\ transcriptError = Null)

\* C28: whenever no upload is in progress uploadProgress is 0: no tick of
\* the progress interval changes it after the upload has finished
C28_IdleProgressZero ==
  (mounted /\ ~isUploading) => uploadProgress = 0

\* C29: during an upload uploadProgress stays within 0..100, does not exceed
\* 90 while the upload handler is pending, and decreases only by the reset
\* to 0 that ends the upload
C29_ProgressMonotone ==
  [][mounted =>
       /\ uploadProgress' \in 0..100
       /\ (\E u \in Uploads : uploads'[u] = "pending") => uploadProgress' <= 90
       /\ uploadProgress' < uploadProgress => uploadProgress' = 0]_vars

====
